---- MODULE Spec2Model ----
(***************************************************************************)
(* Model of rusty_payment_processor: PaymentProcessor (src/processor.rs)   *)
(* routing transactions to per-client Accounts (src/account.rs).           *)
(*                                                                         *)
(* Representation of u64.  A balance is a u64.  A u64 value x is written   *)
(* as the integer r of smallest magnitude with x = r mod 2^64:             *)
(*     r >= 0 stands for r,   r < 0 stands for 2^64 + r  (u64::MAX is -1). *)
(* The model only ever holds values within a few units of 0 or of 2^64,    *)
(* so on this window wrapping addition and subtraction are r + s and       *)
(* r - s, and the operators below decide order, overflow and underflow     *)
(* exactly as the 64-bit machine arithmetic does.                          *)
(*                                                                         *)
(* Representation of f32.  An f32 is a record [k, v]:                      *)
(*     k = "fin":  the decimal v / 10000 (v an integer, |v| small),        *)
(*     k = "huge": a finite value of at least 2^64 / 10000 (such as 1e30), *)
(*     k = "nan":  NaN.                                                    *)
(* Option<f32> adds None.                                                  *)
(***************************************************************************)
EXTENDS Integers, FiniteSets, Sequences, TLC

\* ---------------------------------------------------------------- bounds
\* Length of an input stream whose records all name one client.
MaxTransactions == 5
\* Length of an input stream whose records name two clients.
MaxInterleaved == 3

Clients == {1, 2}
TxIds == {1, 2}

\* ------------------------------------------------------------- f32 / u64
None == [k |-> "none", v |-> 0]
Fin(n) == [k |-> "fin", v |-> n]
Huge == [k |-> "huge", v |-> 0]
NaN == [k |-> "nan", v |-> 0]

\* u64::MAX in the window representation.
U64Max == -1

\* x < y on u64.
Lt(x, y) == IF (x >= 0) = (y >= 0) THEN x < y ELSE x >= 0

\* x + y exceeds u64::MAX.
AddOverflows(x, y) ==
    \/ x < 0 /\ y < 0
    \/ (x < 0) # (y < 0) /\ x + y >= 0

\* x - y is below zero.
SubOverflows(x, y) == Lt(x, y)

\* Mutant of get_amount_in_cent_parts: a negative amount converts to its
\* magnitude.
get_amount_in_cent_parts_Magnitude(amount) ==
    CASE amount.k = "nan" -> 0
      [] amount.k = "huge" -> U64Max
      [] amount.k = "fin" -> IF amount.v < 0 THEN 0 - amount.v ELSE amount.v

\* (amount * 10000.0).round() as u64: the cast saturates, NaN gives 0.
get_amount_in_cent_parts(amount) ==
    CASE amount.k = "nan" -> 0
      [] amount.k = "huge" -> U64Max
      [] amount.k = "fin" -> IF amount.v < 0 THEN 0 ELSE amount.v

\* (amount as f32) / 10000.0: every u64 within the window below 2^64 rounds
\* to the f32 2^64.
get_amount_as_decimal(amount) ==
    IF amount < 0 THEN Huge ELSE Fin(amount)

\* ------------------------------------------------------------------ state
VARIABLES
    build,       \* "debug": integer overflow panics; "release": it wraps
    clients,     \* the client ids that occur in the input stream
    accounts,    \* PaymentProcessor.accounts: client_id -> Account
    panicked,    \* the process has aborted on a panic: nothing runs after
                 \* it, and the accounts keep their values from before the
                 \* transaction that panicked
    steps,       \* records read from the input so far
    lastTx,      \* the transaction handled by the last step (NoTx: none)
    lastResult,  \* what Account::handle returned for it
    cbApplied,   \* clients whose account has had a successful Chargeback
    ledger,      \* per client: running sums over its deposits and withdrawals
    roundTrip,   \* per client: the balances before a Dispute that its
                 \* account accepted as its latest transaction ("disputed"),
                 \* kept when the next one is an accepted Resolve of the
                 \* same tx_id ("resolved")
    solo,        \* per client: the account that Account::handle builds from
                 \* a new account and that client's transactions alone, in
                 \* their order in the input
    disputeState \* per client and tx_id: the latest operation that its
                 \* account accepted for the transaction stored under the
                 \* tx_id: "open" after a Dispute, "chargedback" after a
                 \* Chargeback, "none" after a Resolve and when a Deposit or
                 \* a Withdrawal stores a transaction under it

vars == <<build, clients, accounts, panicked, steps, lastTx, lastResult,
          cbApplied, ledger, roundTrip, solo, disputeState>>

TransactionTypes == {"Deposit", "Withdrawal", "Dispute", "Resolve", "Chargeback"}

Transaction(type, client, tx, amount) ==
    [transaction_type |-> type, client_id |-> client, tx_id |-> tx,
     amount |-> amount]

Ok == [tag |-> "Ok"]
Panic == [tag |-> "Panic"]
Err(tag, client_id, tx_id) == [tag |-> tag, client_id |-> client_id, tx_id |-> tx_id]

\* Account::new
new(client_id) ==
    [client_id |-> client_id, held |-> 0, total |-> 0, locked |-> FALSE,
     transactions |-> <<>>]

\* HashMap::insert: replaces the entry of an existing key.
Insert(map, key, value) ==
    [x \in DOMAIN map \cup {key} |-> IF x = key THEN value ELSE map[x]]

\* `a op b` on u64 panics in a debug build when it overflows.
Panics(overflows) == build = "debug" /\ overflows

\* Mutant of deposit: a deposit unlocks the account.
deposit_Unlocks(account, transaction) ==
    IF transaction.amount = None
    THEN [account |-> account,
          result |-> Err("InvalidData", transaction.client_id, transaction.tx_id)]
    ELSE LET amount == get_amount_in_cent_parts(transaction.amount) IN
         IF Panics(AddOverflows(account.total, amount))
         THEN [account |-> account, result |-> Panic]
         ELSE [account |-> [account EXCEPT
                   !.total = account.total + amount,
                   !.locked = FALSE,
                   !.transactions = Insert(account.transactions, transaction.tx_id,
                       [under_dispute |-> FALSE, transaction |-> transaction])],
               result |-> Ok]

\* Mutant of deposit: the transaction is stored before its amount is looked
\* at.
deposit_StoresBeforeAmountCheck(account, transaction) ==
    LET stored == [account EXCEPT
                      !.transactions = Insert(account.transactions, transaction.tx_id,
                          [under_dispute |-> FALSE, transaction |-> transaction])]
    IN
    IF transaction.amount = None
    THEN [account |-> stored,
          result |-> Err("InvalidData", transaction.client_id, transaction.tx_id)]
    ELSE LET amount == get_amount_in_cent_parts(transaction.amount) IN
         IF Panics(AddOverflows(account.total, amount))
         THEN [account |-> account, result |-> Panic]
         ELSE [account |-> [stored EXCEPT !.total = account.total + amount],
               result |-> Ok]

\* Mutant of deposit: an entry that is under dispute is not overwritten.
deposit_KeepsDisputedEntry(account, transaction) ==
    IF transaction.amount = None
    THEN [account |-> account,
          result |-> Err("InvalidData", transaction.client_id, transaction.tx_id)]
    ELSE LET amount == get_amount_in_cent_parts(transaction.amount)
             disputed == /\ transaction.tx_id \in DOMAIN account.transactions
                         /\ account.transactions[transaction.tx_id].under_dispute
         IN
         IF Panics(AddOverflows(account.total, amount))
         THEN [account |-> account, result |-> Panic]
         ELSE [account |-> [account EXCEPT
                   !.total = account.total + amount,
                   !.transactions =
                       IF disputed THEN @
                       ELSE Insert(account.transactions, transaction.tx_id,
                                [under_dispute |-> FALSE, transaction |-> transaction])],
               result |-> Ok]

\* Account::deposit
deposit(account, transaction) ==
    IF transaction.amount = None
    THEN [account |-> account,
          result |-> Err("InvalidData", transaction.client_id, transaction.tx_id)]
    ELSE LET amount == get_amount_in_cent_parts(transaction.amount) IN
         IF Panics(AddOverflows(account.total, amount))
         THEN [account |-> account, result |-> Panic]
         ELSE [account |-> [account EXCEPT
                   !.total = account.total + amount,
                   !.transactions = Insert(account.transactions, transaction.tx_id,
                       [under_dispute |-> FALSE, transaction |-> transaction])],
               result |-> Ok]

\* Mutant of withdraw: the transaction is stored before the balance check.
withdraw_StoresBeforeCheck(account, transaction) ==
    IF transaction.amount = None
    THEN [account |-> account,
          result |-> Err("InvalidData", transaction.client_id, transaction.tx_id)]
    ELSE LET amount_to_withdraw == get_amount_in_cent_parts(transaction.amount)
             stored == [account EXCEPT
                 !.transactions = Insert(account.transactions, transaction.tx_id,
                     [under_dispute |-> FALSE, transaction |-> transaction])]
         IN
         IF Lt(account.total, amount_to_withdraw)
         THEN [account |-> stored,
               result |-> Err("InsufficientBalance", transaction.client_id,
                              transaction.tx_id)]
         ELSE [account |-> [stored EXCEPT
                   !.total = account.total - amount_to_withdraw],
               result |-> Ok]

\* Mutant of withdraw: `<=` for `<`, a withdrawal of the whole total is
\* rejected.
withdraw_RejectsWholeTotal(account, transaction) ==
    IF transaction.amount = None
    THEN [account |-> account,
          result |-> Err("InvalidData", transaction.client_id, transaction.tx_id)]
    ELSE LET amount_to_withdraw == get_amount_in_cent_parts(transaction.amount) IN
         IF ~Lt(amount_to_withdraw, account.total)
         THEN [account |-> account,
               result |-> Err("InsufficientBalance", transaction.client_id,
                              transaction.tx_id)]
         ELSE [account |-> [account EXCEPT
                   !.total = account.total - amount_to_withdraw,
                   !.transactions = Insert(account.transactions, transaction.tx_id,
                       [under_dispute |-> FALSE, transaction |-> transaction])],
               result |-> Ok]

\* Account::withdraw
withdraw(account, transaction) ==
    IF transaction.amount = None
    THEN [account |-> account,
          result |-> Err("InvalidData", transaction.client_id, transaction.tx_id)]
    ELSE LET amount_to_withdraw == get_amount_in_cent_parts(transaction.amount) IN
         IF Lt(account.total, amount_to_withdraw)
         THEN [account |-> account,
               result |-> Err("InsufficientBalance", transaction.client_id,
                              transaction.tx_id)]
         ELSE [account |-> [account EXCEPT
                   !.total = account.total - amount_to_withdraw,
                   !.transactions = Insert(account.transactions, transaction.tx_id,
                       [under_dispute |-> FALSE, transaction |-> transaction])],
               result |-> Ok]

\* Account::dispute
dispute(account, transaction) ==
    IF transaction.tx_id \notin DOMAIN account.transactions
    THEN [account |-> account,
          result |-> Err("TransactionNotFound", transaction.client_id,
                         transaction.tx_id)]
    ELSE LET entry == account.transactions[transaction.tx_id]
             stored == entry.transaction
             amount_to_dispute == get_amount_in_cent_parts(stored.amount)
         IN
         IF entry.under_dispute
         THEN [account |-> account,
               result |-> Err("DisputeAlreadyUnderDispute", stored.client_id,
                              stored.tx_id)]
         ELSE IF Panics(AddOverflows(account.held, amount_to_dispute))
         THEN [account |-> account, result |-> Panic]
         ELSE [account |-> [account EXCEPT
                   !.transactions[transaction.tx_id].under_dispute = TRUE,
                   !.held = account.held + amount_to_dispute],
               result |-> Ok]

\* The resolve of a stored, disputed transaction with `held_off` taken off
\* held and `total_on` added to total (overflow checks as in resolve).
ResolveWith(account, transaction, held_off, total_on) ==
    IF \/ Panics(SubOverflows(account.held, held_off))
       \/ Panics(AddOverflows(account.total, total_on))
    THEN [account |-> account, result |-> Panic]
    ELSE [account |-> [account EXCEPT
              !.held = account.held - held_off,
              !.total = account.total + total_on,
              !.transactions[transaction.tx_id].under_dispute = FALSE],
          result |-> Ok]

\* Mutant of resolve: the Deposit arm credits total like the Withdrawal arm.
resolve_DepositCreditsTotal(account, transaction) ==
    IF transaction.tx_id \notin DOMAIN account.transactions
    THEN [account |-> account,
          result |-> Err("TransactionNotFound", transaction.client_id,
                         transaction.tx_id)]
    ELSE LET entry == account.transactions[transaction.tx_id]
             amount_to_resolve == get_amount_in_cent_parts(entry.transaction.amount)
         IN
         IF ~entry.under_dispute
         THEN [account |-> account,
               result |-> Err("ResolveNotUnderDispute", transaction.client_id,
                              transaction.tx_id)]
         ELSE ResolveWith(account, transaction, amount_to_resolve, amount_to_resolve)

\* Mutant of resolve: the Withdrawal arm credits total but keeps the hold.
resolve_WithdrawalKeepsHold(account, transaction) ==
    IF transaction.tx_id \notin DOMAIN account.transactions
    THEN [account |-> account,
          result |-> Err("TransactionNotFound", transaction.client_id,
                         transaction.tx_id)]
    ELSE LET entry == account.transactions[transaction.tx_id]
             amount_to_resolve == get_amount_in_cent_parts(entry.transaction.amount)
         IN
         IF ~entry.under_dispute
         THEN [account |-> account,
               result |-> Err("ResolveNotUnderDispute", transaction.client_id,
                              transaction.tx_id)]
         ELSE IF entry.transaction.transaction_type = "Deposit"
         THEN ResolveWith(account, transaction, amount_to_resolve, 0)
         ELSE ResolveWith(account, transaction, 0, amount_to_resolve)

\* Account::resolve
resolve(account, transaction) ==
    IF transaction.tx_id \notin DOMAIN account.transactions
    THEN [account |-> account,
          result |-> Err("TransactionNotFound", transaction.client_id,
                         transaction.tx_id)]
    ELSE LET entry == account.transactions[transaction.tx_id]
             stored == entry.transaction
             amount_to_resolve == get_amount_in_cent_parts(stored.amount)
         IN
         IF ~entry.under_dispute
         THEN [account |-> account,
               result |-> Err("ResolveNotUnderDispute", stored.client_id,
                              stored.tx_id)]
         ELSE IF stored.transaction_type = "Deposit"
         THEN IF Panics(SubOverflows(account.held, amount_to_resolve))
              THEN [account |-> account, result |-> Panic]
              ELSE [account |-> [account EXCEPT
                        !.held = account.held - amount_to_resolve,
                        !.transactions[transaction.tx_id].under_dispute = FALSE],
                    result |-> Ok]
         ELSE IF stored.transaction_type = "Withdrawal"
         THEN IF \/ Panics(SubOverflows(account.held, amount_to_resolve))
                 \/ Panics(AddOverflows(account.total, amount_to_resolve))
              THEN [account |-> account, result |-> Panic]
              ELSE [account |-> [account EXCEPT
                        !.held = account.held - amount_to_resolve,
                        !.total = account.total + amount_to_resolve,
                        !.transactions[transaction.tx_id].under_dispute = FALSE],
                    result |-> Ok]
         ELSE [account |-> account,
               result |-> Err("InvalidTransactionForDispute", stored.client_id,
                              stored.tx_id)]

\* Mutant of chargeback: the account is locked before the lookup.
chargeback_LocksBeforeLookup(account, transaction) ==
    IF transaction.tx_id \notin DOMAIN account.transactions
    THEN [account |-> [account EXCEPT !.locked = TRUE],
          result |-> Err("TransactionNotFound", transaction.client_id,
                         transaction.tx_id)]
    ELSE LET entry == account.transactions[transaction.tx_id]
             stored == entry.transaction
             amount_to_chargeback == get_amount_in_cent_parts(stored.amount)
         IN
         IF ~entry.under_dispute
         THEN [account |-> account,
               result |-> Err("ChargebackNotUnderDispute", stored.client_id,
                              stored.tx_id)]
         ELSE IF stored.transaction_type = "Deposit"
         THEN IF \/ Panics(SubOverflows(account.held, amount_to_chargeback))
                 \/ Panics(SubOverflows(account.total, amount_to_chargeback))
              THEN [account |-> account, result |-> Panic]
              ELSE [account |-> [account EXCEPT
                        !.held = account.held - amount_to_chargeback,
                        !.total = account.total - amount_to_chargeback,
                        !.locked = TRUE],
                    result |-> Ok]
         ELSE [account |-> account,
               result |-> Err("InvalidTransactionForChargeback", stored.client_id,
                              stored.tx_id)]

\* Mutant of chargeback: a disputed Withdrawal is charged back like a Deposit.
chargeback_AcceptsWithdrawal(account, transaction) ==
    IF transaction.tx_id \notin DOMAIN account.transactions
    THEN [account |-> account,
          result |-> Err("TransactionNotFound", transaction.client_id,
                         transaction.tx_id)]
    ELSE LET entry == account.transactions[transaction.tx_id]
             stored == entry.transaction
             amount_to_chargeback == get_amount_in_cent_parts(stored.amount)
         IN
         IF ~entry.under_dispute
         THEN [account |-> account,
               result |-> Err("ChargebackNotUnderDispute", stored.client_id,
                              stored.tx_id)]
         ELSE IF stored.transaction_type \in {"Deposit", "Withdrawal"}
         THEN IF \/ Panics(SubOverflows(account.held, amount_to_chargeback))
                 \/ Panics(SubOverflows(account.total, amount_to_chargeback))
              THEN [account |-> account, result |-> Panic]
              ELSE [account |-> [account EXCEPT
                        !.held = account.held - amount_to_chargeback,
                        !.total = account.total - amount_to_chargeback,
                        !.locked = TRUE],
                    result |-> Ok]
         ELSE [account |-> account,
               result |-> Err("InvalidTransactionForChargeback", stored.client_id,
                              stored.tx_id)]

\* Account::chargeback
chargeback(account, transaction) ==
    IF transaction.tx_id \notin DOMAIN account.transactions
    THEN [account |-> account,
          result |-> Err("TransactionNotFound", transaction.client_id,
                         transaction.tx_id)]
    ELSE LET entry == account.transactions[transaction.tx_id]
             stored == entry.transaction
             amount_to_chargeback == get_amount_in_cent_parts(stored.amount)
         IN
         IF ~entry.under_dispute
         THEN [account |-> account,
               result |-> Err("ChargebackNotUnderDispute", stored.client_id,
                              stored.tx_id)]
         ELSE IF stored.transaction_type = "Deposit"
         THEN IF \/ Panics(SubOverflows(account.held, amount_to_chargeback))
                 \/ Panics(SubOverflows(account.total, amount_to_chargeback))
              THEN [account |-> account, result |-> Panic]
              ELSE [account |-> [account EXCEPT
                        !.held = account.held - amount_to_chargeback,
                        !.total = account.total - amount_to_chargeback,
                        !.locked = TRUE],
                    result |-> Ok]
         ELSE [account |-> account,
               result |-> Err("InvalidTransactionForChargeback", stored.client_id,
                              stored.tx_id)]

\* Mutant of handle: a locked account accepts every transaction and applies
\* none.
handle_SkipsWhenLocked(account, transaction) ==
    IF account.locked THEN [account |-> account, result |-> Ok]
    ELSE CASE transaction.transaction_type = "Deposit" -> deposit(account, transaction)
           [] transaction.transaction_type = "Withdrawal" -> withdraw(account, transaction)
           [] transaction.transaction_type = "Dispute" -> dispute(account, transaction)
           [] transaction.transaction_type = "Resolve" -> resolve(account, transaction)
           [] transaction.transaction_type = "Chargeback" -> chargeback(account, transaction)

\* Account::handle
handle(account, transaction) ==
    CASE transaction.transaction_type = "Deposit" -> deposit(account, transaction)
      [] transaction.transaction_type = "Withdrawal" -> withdraw(account, transaction)
      [] transaction.transaction_type = "Dispute" -> dispute(account, transaction)
      [] transaction.transaction_type = "Resolve" -> resolve(account, transaction)
      [] transaction.transaction_type = "Chargeback" -> chargeback(account, transaction)

\* Account::get_total
get_total(account) == get_amount_as_decimal(account.total)

\* Account::get_held
get_held(account) == get_amount_as_decimal(account.held)

\* Account::get_available
get_available(account) ==
    IF Lt(account.total, account.held)
    THEN Fin(0)
    ELSE get_amount_as_decimal(account.total)

\* Account::is_locked
is_locked(account) == account.locked

\* ------------------------------------------------------- history variables
\* An integer of the form k * 2^64 + r, written <<k, r>> with k and r small;
\* ZOf(x) is the value of the u64 x.
ZOf(x) == <<IF x < 0 THEN 1 ELSE 0, x>>
ZAdd(a, b) == <<a[1] + b[1], a[2] + b[2]>>
ZSub(a, b) == <<a[1] - b[1], a[2] - b[2]>>
ZZero == <<0, 0>>

NoTx == Transaction("None", 0, 0, None)
NoRoundTrip == [phase |-> "none", tx_id |-> 0, held |-> 0, total |-> 0,
                locked |-> FALSE]

\* The round trip of a client after its account, with balances `account`
\* before, answered `result` to `transaction`.
RoundTripAfter(rt, account, transaction, result) ==
    IF result.tag # "Ok" THEN NoRoundTrip
    ELSE IF transaction.transaction_type = "Dispute"
    THEN [phase |-> "disputed", tx_id |-> transaction.tx_id, held |-> account.held,
          total |-> account.total, locked |-> account.locked]
    ELSE IF /\ transaction.transaction_type = "Resolve"
            /\ rt.phase = "disputed"
            /\ rt.tx_id = transaction.tx_id
    THEN [rt EXCEPT !.phase = "resolved"]
    ELSE NoRoundTrip

\* A Deposit or Withdrawal whose amount is present and not negative.
PlainTransfer(transaction) ==
    /\ transaction.transaction_type \in {"Deposit", "Withdrawal"}
    /\ \/ transaction.amount.k = "huge"
       \/ transaction.amount.k = "fin" /\ transaction.amount.v >= 0

NoLedger == [pure |-> FALSE, deposited |-> ZZero, withdrawn |-> ZZero]

\* The ledger of a client after its account handled `transaction`: the sums
\* are kept while every transaction of the client has been a plain transfer.
LedgerAfter(l, transaction, result) ==
    IF ~(l.pure /\ PlainTransfer(transaction)) THEN NoLedger
    ELSE LET amount == ZOf(get_amount_in_cent_parts(transaction.amount)) IN
         IF transaction.transaction_type = "Deposit"
         THEN [l EXCEPT !.deposited = ZAdd(l.deposited, amount)]
         ELSE IF result.tag = "Ok"
         THEN [l EXCEPT !.withdrawn = ZAdd(l.withdrawn, amount)]
         ELSE l

\* ----------------------------------------------------------------- system
\* PaymentProcessor::new, before main reads its first record.
Init ==
    /\ build \in {"debug", "release"}
    /\ clients \in {{1}, Clients}
    /\ accounts = <<>>
    /\ panicked = FALSE
    /\ steps = 0
    /\ lastTx = NoTx
    /\ lastResult = [tag |-> "None"]
    /\ cbApplied = {}
    /\ ledger = [c \in Clients |-> [NoLedger EXCEPT !.pure = TRUE]]
    /\ roundTrip = [c \in Clients |-> NoRoundTrip]
    /\ solo = [c \in Clients |-> new(c)]
    /\ disputeState = [c \in Clients |-> [tx \in TxIds |-> "none"]]

\* main: the process is running and the reader has another record.
MoreInput ==
    /\ ~panicked
    /\ steps < (IF Cardinality(clients) = 1 THEN MaxTransactions ELSE MaxInterleaved)

\* Mutant of AccountOf: every client is served from the account that was
\* registered first.
AccountOf_FirstRegistered(c) ==
    IF accounts = <<>> THEN new(c)
    ELSE accounts[CHOOSE k \in DOMAIN accounts : \A x \in DOMAIN accounts : k <= x]

\* Mutant of AccountOf: every transaction is handled by a new account.
AccountOf_AlwaysNew(c) == new(c)

\* The account a transaction of client c is handled by: the registered one,
\* or the fresh one process creates for an unseen client.
AccountOf(c) == IF c \in DOMAIN accounts THEN accounts[c] ELSE new(c)

\* History of the dispute, resolve and chargeback of a stored transaction.
DisputeStateAfter(d, transaction, result) ==
    IF result.tag # "Ok" THEN d
    ELSE [d EXCEPT ![transaction.tx_id] =
             CASE transaction.transaction_type \in {"Deposit", "Withdrawal", "Resolve"} -> "none"
               [] transaction.transaction_type = "Dispute" -> "open"
               [] transaction.transaction_type = "Chargeback" -> "chargedback"]

\* PaymentProcessor::process
process(transaction) ==
    LET client_id == transaction.client_id
        known == client_id \in DOMAIN accounts
        account == AccountOf(client_id)
        r == handle(account, transaction)
        alone == handle(solo[client_id], transaction)
    IN
    /\ MoreInput
    /\ steps' = steps + 1
    /\ UNCHANGED <<build, clients>>
    /\ lastTx' = transaction
    /\ lastResult' = r.result
    /\ ledger' = [ledger EXCEPT
                     ![client_id] = LedgerAfter(@, transaction, r.result)]
    /\ IF r.result.tag = "Panic"
       THEN /\ panicked' = TRUE
            /\ UNCHANGED <<accounts, cbApplied, roundTrip, solo, disputeState>>
       ELSE /\ panicked' = FALSE
            /\ accounts' = IF known
                           THEN [accounts EXCEPT ![client_id] = r.account]
                           ELSE Insert(accounts, client_id, r.account)
            /\ cbApplied' =
                   IF transaction.transaction_type = "Chargeback" /\ r.result.tag = "Ok"
                   THEN cbApplied \cup {client_id}
                   ELSE cbApplied
            /\ roundTrip' = [roundTrip EXCEPT ![client_id] =
                   RoundTripAfter(@, account, transaction, r.result)]
            /\ solo' = IF alone.result.tag = "Panic" THEN solo
                       ELSE [solo EXCEPT ![client_id] = alone.account]
            /\ disputeState' = [disputeState EXCEPT ![client_id] =
                   DisputeStateAfter(@, transaction, r.result)]

\* The amount column of a record.
AmountInputs == {None, Huge, Fin(-1), Fin(1), Fin(2)}

ProcessDeposit ==
    \E c \in clients, tx \in TxIds, amount \in AmountInputs :
        process(Transaction("Deposit", c, tx, amount))

ProcessWithdrawal ==
    \E c \in clients, tx \in TxIds, amount \in AmountInputs :
        process(Transaction("Withdrawal", c, tx, amount))

ProcessDispute ==
    \E c \in clients, tx \in TxIds : process(Transaction("Dispute", c, tx, None))

ProcessResolve ==
    \E c \in clients, tx \in TxIds : process(Transaction("Resolve", c, tx, None))

ProcessChargeback ==
    \E c \in clients, tx \in TxIds : process(Transaction("Chargeback", c, tx, None))

\* main: a record that does not deserialize is reported and skipped.
DeserializationError ==
    /\ MoreInput
    /\ steps' = steps + 1
    /\ lastTx' = NoTx
    /\ lastResult' = [tag |-> "None"]
    /\ UNCHANGED <<build, clients, accounts, panicked, cbApplied, ledger,
                   roundTrip, solo, disputeState>>

Next ==
    \/ ProcessDeposit
    \/ ProcessWithdrawal
    \/ ProcessDispute
    \/ ProcessResolve
    \/ ProcessChargeback
    \/ DeserializationError

Spec == Init /\ [][Next]_vars

\* ------------------------------------------------------------ vocabulary
\* This step is process(t) for some transaction t (and not a skipped record).
Handles == steps' = steps + 1 /\ lastTx' # NoTx

\* Every account registered before the step is the same after it.
OthersUnchanged == \A c \in DOMAIN accounts : accounts'[c] = accounts[c]

\* The account of the handled transaction is, after the step, what it was
\* before it.
OwnUnchanged ==
    /\ lastTx'.client_id \in DOMAIN accounts'
    /\ accounts'[lastTx'.client_id] = AccountOf(lastTx'.client_id)

OperationErrors ==
    {"InsufficientBalance", "InvalidData", "TransactionNotFound",
     "DisputeAlreadyUnderDispute", "ResolveNotUnderDispute",
     "ChargebackNotUnderDispute", "InvalidTransactionForDispute",
     "InvalidTransactionForChargeback"}

\* ----------------------------------------------------------------- claims
\* C1: a transaction that Account::handle rejects with an OperationError
\* leaves held, total, locked and the stored transactions (with their
\* under_dispute flags) of the account exactly as they were.
C1_RejectedStep ==
    (Handles /\ lastResult'.tag \in OperationErrors)
        => (OwnUnchanged /\ OthersUnchanged)
C1_RejectedTransactionChangesNothing == [][C1_RejectedStep]_vars

\* C1 witness: a Chargeback of a disputed Withdrawal has just been rejected
\* by an account that holds funds.
C1_Witness ==
    /\ lastResult.tag = "InvalidTransactionForChargeback"
    /\ accounts[lastTx.client_id].held > 0

\* C2: while no Chargeback has been applied to an account, held <= total.
C2_HeldAtMostTotalBeforeChargeback ==
    \A c \in DOMAIN accounts :
        c \notin cbApplied => ~Lt(accounts[c].total, accounts[c].held)

\* C3: get_available reports total - held when held <= total, and zero
\* when held > total.
C3_AvailableIsTotalMinusHeld ==
    \A c \in DOMAIN accounts :
        get_available(accounts[c]) =
            IF Lt(accounts[c].total, accounts[c].held)
            THEN Fin(0)
            ELSE get_amount_as_decimal(accounts[c].total - accounts[c].held)

\* C4: a Withdrawal whose converted amount exceeds total is rejected with
\* InsufficientBalance and changes nothing; otherwise it succeeds, takes
\* exactly the amount off total, leaves held and locked alone and stores
\* (false, transaction) under its tx_id.
C4_WithdrawalStep ==
    (Handles /\ lastTx'.transaction_type = "Withdrawal" /\ lastTx'.amount # None)
        => LET t == lastTx'
               before == AccountOf(t.client_id)
               amount == get_amount_in_cent_parts(t.amount)
           IN  IF Lt(before.total, amount)
               THEN /\ lastResult'.tag = "InsufficientBalance"
                    /\ OwnUnchanged
                    /\ OthersUnchanged
               ELSE /\ lastResult'.tag = "Ok"
                    /\ LET after == accounts'[t.client_id] IN
                       /\ ZOf(after.total) = ZSub(ZOf(before.total), ZOf(amount))
                       /\ after.held = before.held
                       /\ after.locked = before.locked
                       /\ after.transactions =
                              Insert(before.transactions, t.tx_id,
                                     [under_dispute |-> FALSE, transaction |-> t])
C4_WithdrawalChecksTotal == [][C4_WithdrawalStep]_vars

\* C4 witness: a Withdrawal of a positive amount has just succeeded on an
\* account that is left with funds and with a hold.
C4_Witness ==
    /\ lastTx.transaction_type = "Withdrawal"
    /\ lastResult.tag = "Ok"
    /\ get_amount_in_cent_parts(lastTx.amount) > 0
    /\ accounts[lastTx.client_id].total > 0
    /\ accounts[lastTx.client_id].held > 0

\* C5: while an account has handled only Deposits and Withdrawals with
\* amounts present and not negative, total is the sum of the deposited
\* amounts minus the sum of the amounts of the withdrawals that succeeded,
\* held is 0 and available equals total.
C5_TotalIsDepositsMinusWithdrawals ==
    \A c \in DOMAIN accounts :
        ledger[c].pure =>
            /\ ZOf(accounts[c].total) =
                   ZSub(ledger[c].deposited, ledger[c].withdrawn)
            /\ accounts[c].held = 0
            /\ get_available(accounts[c]) = get_total(accounts[c])

\* C6: a Dispute naming a stored transaction that is not under dispute
\* succeeds for a Deposit and for a Withdrawal alike, sets the flag, adds
\* exactly the stored amount to held and leaves total and locked alone; one
\* naming a transaction already under dispute is rejected with
\* DisputeAlreadyUnderDispute and holds nothing further.
C6_DisputeStep ==
    (/\ Handles
     /\ lastTx'.transaction_type = "Dispute"
     /\ lastTx'.tx_id \in DOMAIN AccountOf(lastTx'.client_id).transactions)
        => LET t == lastTx'
               before == AccountOf(t.client_id)
               entry == before.transactions[t.tx_id]
               amount == get_amount_in_cent_parts(entry.transaction.amount)
           IN  IF entry.under_dispute
               THEN /\ lastResult'.tag = "DisputeAlreadyUnderDispute"
                    /\ OwnUnchanged
                    /\ OthersUnchanged
               ELSE /\ lastResult'.tag = "Ok"
                    /\ LET after == accounts'[t.client_id] IN
                       /\ after.transactions[t.tx_id].under_dispute
                       /\ ZOf(after.held) = ZAdd(ZOf(before.held), ZOf(amount))
                       /\ after.total = before.total
                       /\ after.locked = before.locked
C6_DisputeHoldsStoredAmount == [][C6_DisputeStep]_vars

\* C7: a Dispute, Resolve or Chargeback whose tx_id is not stored in the
\* account of its own client_id, even if another client's account stores
\* it, is rejected with TransactionNotFound and changes no account.
C7_UnknownTxStep ==
    (/\ Handles
     /\ lastTx'.transaction_type \in {"Dispute", "Resolve", "Chargeback"}
     /\ lastTx'.tx_id \notin DOMAIN AccountOf(lastTx'.client_id).transactions)
        => /\ lastResult'.tag = "TransactionNotFound"
           /\ OwnUnchanged
           /\ OthersUnchanged
C7_UnknownTxIsNotFound == [][C7_UnknownTxStep]_vars

\* C7 witness: a transaction has just been rejected with TransactionNotFound
\* although another client's account stores its tx_id, under dispute.
C7_Witness ==
    /\ lastResult.tag = "TransactionNotFound"
    /\ \E c \in DOMAIN accounts :
        /\ c # lastTx.client_id
        /\ lastTx.tx_id \in DOMAIN accounts[c].transactions
        /\ accounts[c].transactions[lastTx.tx_id].under_dispute

\* The stored transaction a round trip of client c is about.
RoundTripTx(c) == accounts[c].transactions[roundTrip[c].tx_id].transaction

\* C8: for a stored Deposit, a successful Dispute directly followed by a
\* successful Resolve of the same tx_id puts held back to its value before
\* the Dispute, leaves total unchanged in between and at the end, and clears
\* the flag.
C8_DepositRoundTrip ==
    \A c \in DOMAIN accounts :
        (roundTrip[c].phase # "none" /\ RoundTripTx(c).transaction_type = "Deposit")
            => /\ accounts[c].total = roundTrip[c].total
               /\ roundTrip[c].phase = "resolved" =>
                      /\ accounts[c].held = roundTrip[c].held
                      /\ ~accounts[c].transactions[roundTrip[c].tx_id].under_dispute

\* C8 witness: a Deposit of a positive amount has been disputed and resolved
\* while another hold was in place.
C8_Witness ==
    \E c \in DOMAIN accounts :
        /\ roundTrip[c].phase = "resolved"
        /\ RoundTripTx(c).transaction_type = "Deposit"
        /\ get_amount_in_cent_parts(RoundTripTx(c).amount) > 0
        /\ roundTrip[c].held > 0

\* C9 as stated: for any stored transaction, a successful Dispute directly
\* followed by a successful Resolve of the same tx_id leaves held, total and
\* locked at their values before the Dispute.
C9_RoundTripRestoresBalances ==
    \A c \in DOMAIN accounts :
        roundTrip[c].phase = "resolved"
            => /\ accounts[c].held = roundTrip[c].held
               /\ accounts[c].total = roundTrip[c].total
               /\ accounts[c].locked = roundTrip[c].locked

\* C9 amended: such a round trip leaves held and locked at their values
\* before the Dispute; total is back at its value for a Deposit, and for a
\* Withdrawal it is that value plus the withdrawal's amount (u64 addition).
C9_RoundTripCreditsWithdrawal ==
    \A c \in DOMAIN accounts :
        roundTrip[c].phase = "resolved"
            => /\ accounts[c].held = roundTrip[c].held
               /\ accounts[c].locked = roundTrip[c].locked
               /\ accounts[c].total =
                      IF RoundTripTx(c).transaction_type = "Deposit"
                      THEN roundTrip[c].total
                      ELSE roundTrip[c].total
                               + get_amount_in_cent_parts(RoundTripTx(c).amount)

\* C9 witness: a Withdrawal of a positive amount has been disputed and
\* resolved.
C9_Witness ==
    \E c \in DOMAIN accounts :
        /\ roundTrip[c].phase = "resolved"
        /\ RoundTripTx(c).transaction_type = "Withdrawal"
        /\ get_amount_in_cent_parts(RoundTripTx(c).amount) > 0

\* C10: a Resolve naming a stored Withdrawal that is under dispute succeeds,
\* takes the withdrawal's amount off held, adds the same amount to total and
\* clears the flag.
C10_ResolveWithdrawalStep ==
    (/\ Handles
     /\ lastTx'.transaction_type = "Resolve"
     /\ lastTx'.tx_id \in DOMAIN AccountOf(lastTx'.client_id).transactions
     /\ LET entry == AccountOf(lastTx'.client_id).transactions[lastTx'.tx_id] IN
        /\ entry.under_dispute
        /\ entry.transaction.transaction_type = "Withdrawal")
        => LET t == lastTx'
               before == AccountOf(t.client_id)
               amount == get_amount_in_cent_parts(
                             before.transactions[t.tx_id].transaction.amount)
           IN  /\ lastResult'.tag = "Ok"
               /\ LET after == accounts'[t.client_id] IN
                  /\ ZOf(after.held) = ZSub(ZOf(before.held), ZOf(amount))
                  /\ ZOf(after.total) = ZAdd(ZOf(before.total), ZOf(amount))
                  /\ ~after.transactions[t.tx_id].under_dispute
                  /\ after.locked = before.locked
C10_ResolveCreditsWithdrawal == [][C10_ResolveWithdrawalStep]_vars

\* C10, the scenario alone: after a deposit D, a withdrawal W, the dispute
\* of W and the resolve of W as the only four records of an account,
\* total = D, held = 0 and the account is unlocked.
C10_Scenario ==
    \A c \in DOMAIN accounts :
        (/\ steps = 4
         /\ DOMAIN accounts = {c}
         /\ roundTrip[c].phase = "resolved"
         /\ RoundTripTx(c).transaction_type = "Withdrawal")
            => \A d \in DOMAIN accounts[c].transactions :
                   accounts[c].transactions[d].transaction.transaction_type = "Deposit"
                       => /\ accounts[c].total = get_amount_in_cent_parts(
                                 accounts[c].transactions[d].transaction.amount)
                          /\ accounts[c].held = 0
                          /\ ~accounts[c].locked


\* C11: a Chargeback naming a stored Deposit that is under dispute succeeds,
\* takes exactly the deposit's amount off held and off total and locks the
\* account, whatever came before.
C11_ChargebackDepositStep ==
    (/\ Handles
     /\ lastTx'.transaction_type = "Chargeback"
     /\ lastTx'.tx_id \in DOMAIN AccountOf(lastTx'.client_id).transactions
     /\ LET entry == AccountOf(lastTx'.client_id).transactions[lastTx'.tx_id] IN
        /\ entry.under_dispute
        /\ entry.transaction.transaction_type = "Deposit")
        => LET t == lastTx'
               before == AccountOf(t.client_id)
               amount == get_amount_in_cent_parts(
                             before.transactions[t.tx_id].transaction.amount)
           IN  /\ lastResult'.tag = "Ok"
               /\ LET after == accounts'[t.client_id] IN
                  /\ ZOf(after.held) = ZSub(ZOf(before.held), ZOf(amount))
                  /\ ZOf(after.total) = ZSub(ZOf(before.total), ZOf(amount))
                  /\ after.locked
C11_ChargebackDebitsDeposit == [][C11_ChargebackDepositStep]_vars

\* C12: a Chargeback naming a stored Withdrawal that is under dispute is
\* rejected with InvalidTransactionForChargeback; total, held, locked and
\* the withdrawal's under_dispute flag stay as they were.
C12_ChargebackWithdrawalStep ==
    (/\ Handles
     /\ lastTx'.transaction_type = "Chargeback"
     /\ lastTx'.tx_id \in DOMAIN AccountOf(lastTx'.client_id).transactions
     /\ LET entry == AccountOf(lastTx'.client_id).transactions[lastTx'.tx_id] IN
        /\ entry.under_dispute
        /\ entry.transaction.transaction_type = "Withdrawal")
        => LET t == lastTx'
               before == AccountOf(t.client_id)
               after == accounts'[t.client_id]
           IN  /\ lastResult'.tag = "InvalidTransactionForChargeback"
               /\ after.total = before.total
               /\ after.held = before.held
               /\ after.locked = before.locked
               /\ after.transactions[t.tx_id].under_dispute
C12_ChargebackRejectsWithdrawal == [][C12_ChargebackWithdrawalStep]_vars

\* C12 witness: the Chargeback of a disputed Withdrawal has just been
\* rejected; its amount is still held, funds remain and the account is
\* unlocked.
C12_Witness ==
    /\ lastTx.transaction_type = "Chargeback"
    /\ lastResult.tag = "InvalidTransactionForChargeback"
    /\ LET a == accounts[lastTx.client_id] IN
       /\ a.transactions[lastTx.tx_id].under_dispute
       /\ a.held = get_amount_in_cent_parts(a.transactions[lastTx.tx_id].transaction.amount)
       /\ a.held > 0
       /\ a.total > 0
       /\ ~a.locked

\* C13: a new account is unlocked, locked turns true only in a step that is
\* a successful Chargeback on that account, and a locked account stays
\* locked.
C13_LockStep ==
    \A c \in DOMAIN accounts' :
        /\ c \notin DOMAIN accounts => ~accounts'[c].locked
        /\ (c \in DOMAIN accounts /\ accounts[c].locked) => accounts'[c].locked
        /\ (~AccountOf(c).locked /\ accounts'[c].locked)
               => /\ Handles
                  /\ lastTx'.transaction_type = "Chargeback"
                  /\ lastTx'.client_id = c
                  /\ lastResult'.tag = "Ok"
C13_LockedIsMonotonic == [][C13_LockStep]_vars

\* C13 witness: a Deposit has just succeeded on a locked account.
C13_Witness ==
    /\ lastTx.transaction_type = "Deposit"
    /\ lastResult.tag = "Ok"
    /\ accounts[lastTx.client_id].locked
    /\ accounts[lastTx.client_id].total > 0


\* C14: processing a transaction changes only the account of the
\* transaction's client_id, and each account is what its own client's
\* transactions alone make of a new account, under every interleaving with
\* the transactions of other clients; what handle returns, a panic
\* included, is what it returns on the client's own subsequence.
C14_OwnSubsequenceStep ==
    Handles =>
        LET t == lastTx'
            alone == handle(solo[t.client_id], t)
        IN  /\ \A c \in DOMAIN accounts' \ {t.client_id} :
                   c \in DOMAIN accounts /\ accounts'[c] = accounts[c]
            /\ lastResult' = alone.result
            /\ ~panicked' => accounts'[t.client_id] = alone.account
C14_AccountsAreIndependent ==
    /\ [](\A c \in Clients :
              IF c \in DOMAIN accounts THEN accounts[c] = solo[c]
              ELSE solo[c] = new(c))
    /\ [][C14_OwnSubsequenceStep]_vars

\* C14 witness: the transactions of two clients have been interleaved, the
\* last one handled for a client whose account a transaction of the other
\* client was handled after, and both accounts hold funds.
C14_Witness ==
    /\ DOMAIN accounts = Clients
    /\ steps = MaxInterleaved
    /\ \A c \in Clients : accounts[c].total > 0
    /\ accounts[lastTx.client_id].held > 0


\* C15: the registry starts empty and only grows: process(t) registers a
\* zero-balance unlocked account for t.client_id when there is none, also
\* when that new account rejects t, and a registered account is never
\* removed nor replaced by a new one: it is the account handle was applied
\* to.
C15_RegistryStep ==
    /\ DOMAIN accounts \subseteq DOMAIN accounts'
    /\ (Handles /\ ~panicked') =>
           LET t == lastTx'
               c == t.client_id
           IN  /\ DOMAIN accounts' = DOMAIN accounts \cup {c}
               /\ (c \notin DOMAIN accounts /\ lastResult'.tag \in OperationErrors)
                      => accounts'[c] = new(c)
               /\ c \notin DOMAIN accounts
                      => accounts'[c] = handle(new(c), t).account
               /\ c \in DOMAIN accounts
                      => accounts'[c] = handle(accounts[c], t).account
C15_RegistryOnlyGrows ==
    /\ (steps = 0 => accounts = <<>>)
    /\ [][C15_RegistryStep]_vars

\* C15 witness: a client's first transaction was rejected and its new,
\* zero-balance unlocked account is registered next to an older account that
\* still holds its funds.
C15_Witness ==
    /\ lastResult.tag \in OperationErrors
    /\ lastTx.client_id \in DOMAIN accounts
    /\ accounts[lastTx.client_id] = new(lastTx.client_id)
    /\ \E c \in DOMAIN accounts : c # lastTx.client_id /\ accounts[c].total > 0


\* C16: after a Chargeback of the transaction stored under a tx_id has
\* succeeded, a later Resolve or Chargeback naming that tx_id succeeds or
\* fails without changing held, total or locked of the account.
C16_AfterChargebackStep ==
    (/\ Handles
     /\ lastTx'.transaction_type \in {"Resolve", "Chargeback"}
     /\ disputeState[lastTx'.client_id][lastTx'.tx_id] = "chargedback")
        => /\ ~panicked'
           /\ LET before == accounts[lastTx'.client_id]
                  after == accounts'[lastTx'.client_id]
              IN  /\ after.held = before.held
                  /\ after.total = before.total
                  /\ after.locked = before.locked
C16_ChargebackIsTerminal == [][C16_AfterChargebackStep]_vars

\* C17: a stored transaction is under dispute only if its account accepted a
\* Dispute of its tx_id and has accepted no Resolve and no Chargeback of that
\* tx_id since.
C17_FlagOnlyWhileDisputeOpen ==
    \A c \in DOMAIN accounts : \A tx \in DOMAIN accounts[c].transactions :
        accounts[c].transactions[tx].under_dispute
            => disputeState[c][tx] = "open"


\* C18: locking does not block processing: on the account a transaction is
\* handled by and on the account that differs from it only in locked,
\* handle returns the same result and leaves the same held, total and
\* stored transactions, and the step applies exactly that.
C18_LockBlindStep ==
    Handles =>
        LET t == lastTx'
            before == AccountOf(t.client_id)
            other == [before EXCEPT !.locked = ~before.locked]
            r == handle(before, t)
            q == handle(other, t)
        IN  /\ q.result = r.result
            /\ q.account.held = r.account.held
            /\ q.account.total = r.account.total
            /\ q.account.transactions = r.account.transactions
            /\ lastResult' = r.result
            /\ ~panicked' => accounts'[t.client_id] = r.account
C18_LockingDoesNotBlock == [][C18_LockBlindStep]_vars

\* C18 witness: after a chargeback has locked the account, a Dispute of
\* another stored transaction has just been accepted and holds its amount.
C18_Witness ==
    /\ lastTx.transaction_type = "Dispute"
    /\ lastResult.tag = "Ok"
    /\ LET a == accounts[lastTx.client_id] IN
       /\ a.locked
       /\ a.transactions[lastTx.tx_id].under_dispute
       /\ \E tx \in DOMAIN a.transactions \ {lastTx.tx_id} :
              disputeState[lastTx.client_id][tx] = "chargedback"

\* C19: every stored entry of an account is a Deposit or a Withdrawal that
\* carries an amount and the account's own client_id, the account is
\* registered under its own client_id, and no operation has returned
\* InvalidTransactionForDispute.
C19_StoredAreTransfersWithAmount ==
    /\ \A c \in DOMAIN accounts :
           /\ accounts[c].client_id = c
           /\ \A tx \in DOMAIN accounts[c].transactions :
                  LET stored == accounts[c].transactions[tx].transaction IN
                  /\ stored.transaction_type \in {"Deposit", "Withdrawal"}
                  /\ stored.amount # None
                  /\ stored.client_id = c
                  /\ stored.tx_id = tx
    /\ lastResult.tag # "InvalidTransactionForDispute"

\* C19 witness: a Resolve of a stored Withdrawal has just been accepted in
\* an account that stores a Deposit as well.
C19_Witness ==
    /\ lastTx.transaction_type = "Resolve"
    /\ lastResult.tag = "Ok"
    /\ LET a == accounts[lastTx.client_id] IN
       /\ a.transactions[lastTx.tx_id].transaction.transaction_type = "Withdrawal"
       /\ \E tx \in DOMAIN a.transactions :
              a.transactions[tx].transaction.transaction_type = "Deposit"

\* The step handles a Deposit or a Withdrawal whose tx_id the account
\* already stores.
C20_ReusedTxId ==
    /\ Handles
    /\ lastTx'.transaction_type \in {"Deposit", "Withdrawal"}
    /\ lastTx'.tx_id \in DOMAIN AccountOf(lastTx'.client_id).transactions

\* The step has replaced the entry under the tx_id by (false, the new
\* transaction), kept every other entry, and left held as it was.
C20_Replaced ==
    LET t == lastTx'
        before == AccountOf(t.client_id)
        after == accounts'[t.client_id]
    IN  /\ after.transactions =
               [before.transactions EXCEPT ![t.tx_id] =
                    [under_dispute |-> FALSE, transaction |-> t]]
        /\ after.held = before.held

\* C20 (as stated): every Deposit, and every successful Withdrawal, whose
\* tx_id is already stored replaces the stored entry with (false, new
\* transaction) and leaves held as it was.
C20_EveryDepositStep ==
    (/\ C20_ReusedTxId
     /\ lastTx'.transaction_type = "Withdrawal" => lastResult'.tag = "Ok")
        => C20_Replaced
C20_EveryDepositReplaces == [][C20_EveryDepositStep]_vars

\* C20 (amended): a Deposit or a Withdrawal that the account accepts and
\* whose tx_id is already stored replaces the stored entry with (false, new
\* transaction), also when the old entry is under dispute, and leaves held
\* as it was.
C20_AcceptedStep ==
    (C20_ReusedTxId /\ lastResult'.tag = "Ok") => C20_Replaced
C20_AcceptedTransferReplaces == [][C20_AcceptedStep]_vars

\* C20 witness: a Deposit has just replaced an entry that was under dispute:
\* the account holds an amount and none of its stored transactions is under
\* dispute.
C20_Witness ==
    /\ lastTx.transaction_type = "Deposit"
    /\ lastResult.tag = "Ok"
    /\ LET a == accounts[lastTx.client_id] IN
       /\ a.held > 0
       /\ a.transactions[lastTx.tx_id] = [under_dispute |-> FALSE, transaction |-> lastTx]
       /\ \A tx \in DOMAIN a.transactions : ~a.transactions[tx].under_dispute


\* C21: a Deposit that carries a negative amount is accepted and stored
\* under its tx_id as (false, the deposit), and leaves total, held and
\* locked as they were; on a new account total, available and held are 0
\* afterwards and the account is unlocked.
C21_NegativeDepositStep ==
    (/\ Handles
     /\ lastTx'.transaction_type = "Deposit"
     /\ lastTx'.amount.k = "fin"
     /\ lastTx'.amount.v < 0)
        => LET t == lastTx'
               before == AccountOf(t.client_id)
               after == accounts'[t.client_id]
           IN  /\ lastResult' = Ok
               /\ ~panicked'
               /\ after.transactions =
                      Insert(before.transactions, t.tx_id,
                             [under_dispute |-> FALSE, transaction |-> t])
               /\ after.total = before.total
               /\ after.held = before.held
               /\ after.locked = before.locked
               /\ t.client_id \notin DOMAIN accounts
                      => /\ get_total(after) = Fin(0)
                         /\ get_available(after) = Fin(0)
                         /\ get_held(after) = Fin(0)
                         /\ ~is_locked(after)
C21_NegativeDepositAddsNothing == [][C21_NegativeDepositStep]_vars

\* C21 witness: a negative Deposit has just been accepted and stored by an
\* account that keeps the funds it had.
C21_Witness ==
    /\ lastTx.transaction_type = "Deposit"
    /\ lastTx.amount.k = "fin"
    /\ lastTx.amount.v < 0
    /\ lastResult = Ok
    /\ LET a == accounts[lastTx.client_id] IN
       /\ a.transactions[lastTx.tx_id].transaction = lastTx
       /\ a.total > 0

\* The sum of the converted amounts of the stored transactions of `account`
\* among `txs` that are under dispute.
RECURSIVE DisputedSum(_, _)
DisputedSum(account, txs) ==
    IF txs = {} THEN ZZero
    ELSE LET tx == CHOOSE x \in txs : TRUE
             entry == account.transactions[tx]
             amount == IF entry.under_dispute
                       THEN ZOf(get_amount_in_cent_parts(entry.transaction.amount))
                       ELSE ZZero
         IN  ZAdd(amount, DisputedSum(account, txs \ {tx}))

\* C22: in every account, held is the sum of the converted amounts of the
\* stored transactions that are under dispute (0 when none is).
C22_HeldIsSumOfDisputed ==
    \A c \in DOMAIN accounts :
        ZOf(accounts[c].held)
            = DisputedSum(accounts[c], DOMAIN accounts[c].transactions)

\* C23: whenever resolve or chargeback subtracts an amount from held, held
\* is at least that amount, and whenever chargeback subtracts an amount from
\* total, total is at least that amount.
C23_SubtractionStep ==
    (/\ Handles
     /\ lastTx'.transaction_type \in {"Resolve", "Chargeback"}
     /\ lastTx'.tx_id \in DOMAIN AccountOf(lastTx'.client_id).transactions
     /\ LET entry == AccountOf(lastTx'.client_id).transactions[lastTx'.tx_id] IN
        /\ entry.under_dispute
        /\ lastTx'.transaction_type = "Chargeback"
               => entry.transaction.transaction_type = "Deposit")
        => LET t == lastTx'
               before == AccountOf(t.client_id)
               amount == get_amount_in_cent_parts(
                             before.transactions[t.tx_id].transaction.amount)
           IN  /\ ~SubOverflows(before.held, amount)
               /\ t.transaction_type = "Chargeback"
                      => ~SubOverflows(before.total, amount)
               /\ ~panicked'
C23_NoUnderflow == [][C23_SubtractionStep]_vars

====
